---- MODULE Spec2Model ----
(***************************************************************************)
(* Model of the enclave proxy's request/response multiplexer               *)
(* (enclave-proxy/src/protocol.rs) and of its callers: the handshake of    *)
(* main.rs, send_log of logging.rs, send_health_report of supervisor.rs    *)
(* and the gateway handlers that call request().                           *)
(*                                                                         *)
(* Strings and frames are sequences of bytes (integers 0..255).  A task is *)
(* a number: 0 is the response dispatcher, MainTask is main(), Requesters  *)
(* call request(), Senders call send_log / send_health_report.             *)
(***************************************************************************)
EXTENDS Integers, Sequences, FiniteSets, TLC

\* ------------------------------------------------------------------ bounds
NumRequesters == 2      \* concurrently running request() calls
NumSenders == 1         \* concurrently running fire-and-forget senders
MaxFaults == 1          \* failed writes / dropped handler futures per run
MaxIds == 12            \* calls of next_request_id in the runs that only take ids
MaxLines == 1           \* lines the child writes to each of its pipes
MaxTicks == 2           \* health ticks of run_service

\* ------------------------------------------------------------------- tasks
Dispatcher == 0
MainTask == NumRequesters + NumSenders + 1
Requesters == 1..NumRequesters
Senders == (NumRequesters + 1)..(NumRequesters + NumSenders)
Tasks == Requesters \cup Senders \cup {MainTask}
NoTask == -1

\* ------------------------------------------------------------ byte strings
\* ASCII codes of the JSON text serde_json writes
LBRACE == 123
RBRACE == 125
QUOTE == 34
DIGIT0 == 48
\* "req-"
ReqPrefix == <<114, 101, 113, 45>>

\* the message types; on the wire each tag is written as one byte
MsgTypes == <<"handshake", "log", "pcr_request", "http_request", "kms_request",
              "health_report", "response">>
TypeByte(t) == CHOOSE i \in 1..Len(MsgTypes) : MsgTypes[i] = t

\* decimal digits of n, most significant first (format!("{id}"))
RECURSIVE Decimal(_)
Decimal(n) == IF n < 10 THEN <<DIGIT0 + n>>
              ELSE Decimal(n \div 10) \o <<DIGIT0 + (n % 10)>>

\* next_request_id: fetch_add returns the old value c of REQUEST_COUNTER.  The
\* counter is a u64; the runs checked here stay far below 2^64, where it wraps.
next_request_id_from_zero(c) == ReqPrefix \o Decimal(c)
next_request_id(c) == ReqPrefix \o Decimal(c + 1)

\* struct Message
Message(t, i, p) == [msg_type |-> t, id |-> i, payload |-> p]
NoMsg == [msg_type |-> "none", id |-> <<>>, payload |-> <<>>]

\* serde_json::to_vec(msg): { type "id" payload }
to_vec(msg) == <<LBRACE, TypeByte(msg.msg_type), QUOTE>> \o msg.id
                 \o <<QUOTE>> \o msg.payload \o <<RBRACE>>

\* u32::to_be_bytes of `len as u32` (every length here is below 2^32)
to_be_bytes(n) ==
    <<(n \div 16777216) % 256, (n \div 65536) % 256, (n \div 256) % 256, n % 256>>
from_be_bytes(h) == h[1] * 16777216 + h[2] * 65536 + h[3] * 256 + h[4]

\* recv's limit: 10 * 1024 * 1024
MaxFrameLen == 10485760

\* serde_json::from_slice::<Message>(buf): the message, or NoMsg on a parse error
from_slice(buf) ==
    IF Len(buf) < 5 \/ buf[1] # LBRACE \/ buf[Len(buf)] # RBRACE
       \/ buf[2] \notin 1..Len(MsgTypes) \/ buf[3] # QUOTE
    THEN NoMsg
    ELSE LET closing == {j \in 4..(Len(buf) - 1) : buf[j] = QUOTE} IN
         IF closing = {} THEN NoMsg
         ELSE LET j == CHOOSE k \in closing : \A l \in closing : k <= l IN
              IF j + 1 > Len(buf) - 1 THEN NoMsg
              ELSE Message(MsgTypes[buf[2]], SubSeq(buf, 4, j - 1),
                           SubSeq(buf, j + 1, Len(buf) - 1))

\* the frame send() writes for msg: length prefix, then the JSON bytes
FrameHeader(msg) == to_be_bytes(Len(to_vec(msg)))
Frame(msg) == FrameHeader(msg) \o to_vec(msg)

\* the JSON payload of each message type, written as one byte
PayloadOf(t) == <<64 + TypeByte(t)>>

\* ------------------------------------------------------------------- state
VARIABLES
    REQUEST_COUNTER,  \* static REQUEST_COUNTER: AtomicU64
    pending,          \* PendingMap: id -> the request whose oneshot Sender it holds
    pendingLock,      \* holder of the PendingMap mutex, or NoTask
    writer,           \* holder of the SharedWriter mutex, or NoTask
    wire,             \* bytes written to the OwnedWriteHalf (agent -> parent)
    shutdown,         \* the watch channel's value
    dispatcher,       \* "off", "running", "eof", "error", "shutdown"
    dispMsg,          \* the message response_dispatcher is routing, or NoMsg
    pc,               \* each task's position
    msg,              \* the Message each task built
    chan,             \* each request's oneshot channel
    result,           \* what each call returned
    response,         \* the Message a request() returned
    \* history of the run, read only by the properties
    wireOwner,        \* for each byte of wire, the task whose send wrote it
    flushed,          \* per task: 0, or Len(wire) when its send flushed
    wrote,            \* the tasks that have written a byte of their frame
    issued,           \* the ids next_request_id returned, in order
    insLog,           \* the ids inserted into pending
    rmLog,            \* removals that found an entry: [id, by]
    orphans,          \* requests waiting for a response when the dispatcher ended
    faults,           \* number of failed writes and dropped futures
    tap,              \* whether this run records the bytes on the wire
    afterExit,        \* the requests whose request() began after the dispatcher ended
    \* the orchestrator and the supervisor
    vsock_connected,  \* main's AtomicBool, read by the health endpoint
    workload,         \* TREZA_WORKLOAD_TYPE
    life,             \* main()'s position after the handshake
    loops,            \* the accept loop of each gateway
    sig,              \* the signal task
    sup,              \* supervisor::run's position
    child,            \* the user process: [state, code]
    out,              \* per pipe, the lines the child wrote that were not read yet
    ticks,            \* health ticks of run_service so far
    frames,           \* the frames completely sent after the handshake, in wire order
    health_interval,  \* TREZA_HEALTH_INTERVAL
    attempts,         \* connect_with_retry: the attempts that failed so far
    gw,               \* a handler of the HTTP gateway: [pc, status, outcome, http]
    lastRead          \* the bytes the dispatcher's last recv consumed (recorded with tap)

muxVars == <<REQUEST_COUNTER, pending, pendingLock, writer, wire, shutdown,
             dispatcher, dispMsg, pc, msg, chan, result, response>>
histVars == <<wireOwner, flushed, wrote, issued, insLog, rmLog, orphans, faults,
              tap>>
\* what no step of main after the handshake, of a gateway loop or of the
\* supervisor changes
sideVars == <<vsock_connected, workload, health_interval, attempts, gw, lastRead>>
mainVars == <<life, loops, sig, sup, child, out, ticks, frames>>
lifeVars == <<sideVars, mainVars>>
vars == <<muxVars, histVars, afterExit, lifeVars>>

\* oneshot::channel(): no value yet, Sender alive, Receiver alive
NewChan == [val |-> NoMsg, closed |-> FALSE, rx |-> TRUE]

\* main(): the stream is split, the pending table is empty, nothing was sent
InitMuxAt(start) ==
    /\ REQUEST_COUNTER = 0
    /\ pending = <<>>
    /\ pendingLock = NoTask
    /\ writer = NoTask
    /\ wire = <<>>
    /\ shutdown = FALSE
    /\ dispatcher = "off"
    /\ dispMsg = NoMsg
    /\ pc = [t \in Tasks |-> IF t = MainTask THEN start ELSE "idle"]
    /\ msg = [t \in Tasks |-> NoMsg]
    /\ chan = [t \in Requesters |-> NewChan]
    /\ result = [t \in Tasks |-> "none"]
    /\ response = [t \in Requesters |-> NoMsg]
    /\ wireOwner = <<>>
    /\ flushed = [t \in Tasks |-> 0]
    /\ wrote = {}
    /\ issued = <<>>
    /\ insLog = {}
    /\ rmLog = <<>>
    /\ orphans = {}
    /\ faults = 0
    /\ afterExit = {}
InitMux == InitMuxAt("handshake")

\* main.rs: const MAX_RETRIES
MAX_RETRIES == 30
\* main: TREZA_HEALTH_INTERVAL, "30" if unset or not a number
DefaultInterval == 30
\* the values of TREZA_HEALTH_INTERVAL in the runs checked
HealthIntervals == {0, DefaultInterval}
\* no handler of the HTTP gateway runs
NoHandler == [pc |-> "idle", status |-> {}, outcome |-> "none", http |-> {}]

\* the gateways main spawns
Gateways == {"http", "kms", "health"}
\* the child's pipes, each read by a task of supervisor::run
Pipes == {"stdout", "stderr"}
\* values of TREZA_WORKLOAD_TYPE: the default, service, and one that is neither
Workloads == {"batch", "service", "cron"}
NoChild == [state |-> "none", code |-> {}]

\* main() up to the handshake: vsock_connected is created true, the shutdown
\* channel false (InitMux), nothing else runs yet
InitLifecycle ==
    /\ vsock_connected = TRUE
    /\ life = "boot"
    /\ loops = [g \in Gateways |-> "off"]
    /\ sig = "off"
    /\ sup = "off"
    /\ child = NoChild
    /\ out = [p \in Pipes |-> 0]
    /\ ticks = 0
    /\ frames = <<>>
    /\ attempts = 0
    /\ gw = NoHandler
    /\ lastRead = <<>>

\* the runs in which only the agent's own state is observed
Init ==
    /\ InitMux /\ InitLifecycle
    /\ workload = "batch" /\ health_interval = DefaultInterval /\ tap = FALSE
\* the runs in which the parent's view, the bytes on the wire, is recorded too
InitWire ==
    /\ InitMux /\ InitLifecycle
    /\ workload = "batch" /\ health_interval = DefaultInterval /\ tap = TRUE
\* the runs of the orchestrator and the supervisor, for each workload type
InitLife ==
    /\ InitMux /\ InitLifecycle
    /\ workload \in Workloads /\ health_interval = DefaultInterval /\ tap = FALSE
\* the runs of the whole process, from before the first connect attempt, for
\* each workload type and health interval
InitProc ==
    /\ InitMuxAt("connect") /\ InitLifecycle
    /\ workload \in Workloads /\ health_interval \in HealthIntervals /\ tap = FALSE

\* ------------------------------------------------------------ map and locks
\* HashMap::insert and HashMap::remove
MapInsert(map, k, v) == [x \in DOMAIN map \cup {k} |-> IF x = k THEN v ELSE map[x]]
MapRemove(map, k) == [x \in DOMAIN map \ {k} |-> map[x]]

\* Mutex::lock().await completes only while nobody holds the mutex
LockFreeAlways(holder) == TRUE
LockFree(holder) == holder = NoTask

\* wait_shutdown / shutdown_recv: returns once the watch channel holds true
ShutdownIgnored(v) == FALSE
ShutdownSeen(v) == v

\* request(): the order of its steps after the id is allocated
\* (insert into pending, send, wait for the response)
request_steps_send_first == <<"send_lock", "ins_lock", "wait">>
request_steps == <<"ins_lock", "send_lock", "wait">>
StepAfter(s) ==
    LET i == CHOOSE k \in 1..Len(request_steps) : request_steps[k] = s
    IN  IF i < Len(request_steps) THEN request_steps[i + 1] ELSE "wait"

\* the message type each request() caller uses: the HTTP gateway, the KMS
\* gateway, fetch_pcrs
RequestType(r) == <<"http_request", "kms_request", "pcr_request">>[((r - 1) % 3) + 1]
\* a gateway handler is a future hyper drops when its connection goes away;
\* fetch_pcrs is awaited by main and runs to its end
Droppable(r) == RequestType(r) # "pcr_request"

\* main goes on to the dispatcher, the gateways and the supervisor only after
\* send_handshake returned Ok
StartedAnyway == TRUE
Started == pc[MainTask] = "started"

\* --------------------------------------------------------------- main.rs
\* connect_with_retry: one pass of `for attempt in 1..=MAX_RETRIES`:
\* vsock::connect returns Ok and the loop returns the stream (its counter is
\* gone with it), or Err; after the last failure main calls exit(1)
Main_Connect ==
    /\ pc[MainTask] = "connect"
    /\ attempts < MAX_RETRIES
    /\ \E ok \in BOOLEAN :
        /\ attempts' = IF ok THEN 0 ELSE attempts + 1
        /\ pc' = [pc EXCEPT ![MainTask] =
                    IF ok THEN "handshake"
                    ELSE IF attempts + 1 = MAX_RETRIES THEN "exhausted"
                    ELSE "connect"]
    /\ UNCHANGED <<REQUEST_COUNTER, pending, pendingLock, writer, wire, shutdown,
                   dispatcher, dispMsg, msg, chan, result, response>>
    /\ UNCHANGED <<histVars, afterExit, mainVars>>
    /\ UNCHANGED <<vsock_connected, workload, health_interval, gw, lastRead>>

\* send_handshake: build the message (taking an id), then protocol::send
Main_Handshake ==
    /\ pc[MainTask] = "handshake"
    /\ REQUEST_COUNTER' = REQUEST_COUNTER + 1
    /\ issued' = Append(issued, next_request_id(REQUEST_COUNTER))
    /\ msg' = [msg EXCEPT ![MainTask] =
                 Message("handshake", next_request_id(REQUEST_COUNTER),
                         PayloadOf("handshake"))]
    /\ pc' = [pc EXCEPT ![MainTask] = "send_lock"]
    /\ UNCHANGED <<pending, pendingLock, writer, wire, shutdown, dispatcher,
                   dispMsg, chan, result, response>>
    /\ UNCHANGED <<wireOwner, flushed, wrote, insLog, rmLog, orphans, faults, tap>>
    /\ UNCHANGED <<afterExit, lifeVars>>

\* the signal task, or the supervisor, sets the watch channel to true
Shutdown_Flip ==
    /\ Started
    /\ ~shutdown
    /\ shutdown' = TRUE
    /\ UNCHANGED <<REQUEST_COUNTER, pending, pendingLock, writer, wire,
                   dispatcher, dispMsg, pc, msg, chan, result, response>>
    /\ UNCHANGED histVars
    /\ UNCHANGED <<afterExit, lifeVars>>

\* ------------------------------------------------- fire-and-forget senders
\* what a fire-and-forget send does to the pending table: nothing
FireAndForgetRegisters(map, k, t) == MapInsert(map, k, t)
FireAndForgetPending(map, k, t) == map

StartSend(t, type) ==
    /\ Started
    /\ pc[t] = "idle"
    /\ REQUEST_COUNTER' = REQUEST_COUNTER + 1
    /\ issued' = Append(issued, next_request_id(REQUEST_COUNTER))
    /\ msg' = [msg EXCEPT ![t] =
                 Message(type, next_request_id(REQUEST_COUNTER), PayloadOf(type))]
    /\ pending' = FireAndForgetPending(pending, next_request_id(REQUEST_COUNTER), t)
    /\ pc' = [pc EXCEPT ![t] = "send_lock"]
    /\ UNCHANGED <<pendingLock, writer, wire, shutdown, dispatcher, dispMsg, chan,
                   result, response>>
    /\ UNCHANGED <<wireOwner, flushed, wrote, insLog, rmLog, orphans, faults, tap>>
    /\ UNCHANGED <<afterExit, lifeVars>>

\* logging::send_log
send_log(t) == StartSend(t, "log")
\* supervisor::send_health_report
send_health_report(t) == StartSend(t, "health_report")

\* -------------------------------------------------------- protocol::send
\* where a task goes when its send returns
AfterSend(t, ok) ==
    IF t \in Requesters THEN (IF ok THEN StepAfter("send_lock") ELSE "done")
    ELSE IF t = MainTask THEN (IF ok THEN "started" ELSE "exit1")
    ELSE "done"
SendResult(t, ok) ==
    IF t \in Requesters THEN (IF ok THEN "none" ELSE "IoError")
    ELSE IF ok THEN "Sent" ELSE "SendFailed"
\* request() keeps its id for the cleanup; the other callers drop their
\* message when send returns
MsgAfterSend(t) == IF t \in Requesters THEN msg[t] ELSE NoMsg

\* writer.lock().await
Send_Lock(t) ==
    /\ pc[t] = "send_lock"
    /\ LockFree(writer)
    /\ writer' = t
    /\ pc' = [pc EXCEPT ![t] = "send_len"]
    /\ UNCHANGED <<REQUEST_COUNTER, pending, pendingLock, wire, shutdown,
                   dispatcher, dispMsg, msg, chan, result, response>>
    /\ UNCHANGED histVars
    /\ UNCHANGED <<afterExit, lifeVars>>

\* how many bytes a write_all that does not complete has written: none of
\* them, or some but not all
PartialWrites(bytes) == {0, Len(bytes) \div 2}

\* the first k of `bytes` reach the stream
Emit(t, bytes, k) ==
    /\ wire' = IF tap THEN wire \o SubSeq(bytes, 1, k) ELSE wire
    /\ wireOwner' = IF tap THEN wireOwner \o [i \in 1..k |-> t] ELSE wireOwner
    /\ wrote' = IF k > 0 THEN wrote \cup {t} ELSE wrote

\* write_all(bytes): all of them, or an error after the first k of them; on the
\* error `?` returns it and the MutexGuard is dropped
WriteAll(t, bytes, k, next) ==
    /\ Emit(t, bytes, k)
    /\ IF k = Len(bytes)
       THEN /\ pc' = [pc EXCEPT ![t] = next]
            /\ UNCHANGED <<writer, result, faults, msg>>
       ELSE /\ faults < MaxFaults
            /\ faults' = faults + 1
            /\ writer' = NoTask
            /\ pc' = [pc EXCEPT ![t] = AfterSend(t, FALSE)]
            /\ result' = [result EXCEPT ![t] = SendResult(t, FALSE)]
            /\ msg' = [msg EXCEPT ![t] = MsgAfterSend(t)]
    /\ UNCHANGED <<REQUEST_COUNTER, pending, pendingLock, shutdown, dispatcher,
                   dispMsg, chan, response>>
    /\ UNCHANGED <<flushed, issued, insLog, rmLog, orphans, tap>>
    /\ UNCHANGED <<afterExit, lifeVars>>

\* w.write_all(&len.to_be_bytes()).await?
Send_WriteLen(t) ==
    /\ pc[t] = "send_len"
    /\ \E k \in PartialWrites(FrameHeader(msg[t])) \cup {4} :
        WriteAll(t, FrameHeader(msg[t]), k, "send_payload")

\* w.write_all(&payload).await?
Send_WritePayload(t) ==
    /\ pc[t] = "send_payload"
    /\ \E k \in PartialWrites(to_vec(msg[t])) \cup {Len(to_vec(msg[t]))} :
        WriteAll(t, to_vec(msg[t]), k, "send_flush")

\* w.flush().await, then the MutexGuard is dropped.  After a handshake that
\* was sent, main starts the response dispatcher and the other tasks.
Send_Flush(t) ==
    /\ pc[t] = "send_flush"
    /\ \E ok \in BOOLEAN :
        /\ (~ok) => faults < MaxFaults
        /\ faults' = IF ok THEN faults ELSE faults + 1
        /\ flushed' = IF ok /\ tap THEN [flushed EXCEPT ![t] = Len(wire)] ELSE flushed
        /\ pc' = [pc EXCEPT ![t] = AfterSend(t, ok)]
        /\ result' = [result EXCEPT ![t] = SendResult(t, ok)]
        /\ dispatcher' = IF t = MainTask /\ ok THEN "running" ELSE dispatcher
    /\ writer' = NoTask
    /\ msg' = [msg EXCEPT ![t] = MsgAfterSend(t)]
    /\ UNCHANGED <<REQUEST_COUNTER, pending, pendingLock, wire, shutdown, dispMsg,
                   chan, response>>
    /\ UNCHANGED <<wireOwner, wrote, issued, insLog, rmLog, orphans, tap>>
    /\ UNCHANGED <<afterExit, lifeVars>>

\* ------------------------------------------------------ protocol::request
\* let id = next_request_id(); let (tx, rx) = oneshot::channel();
Request_Alloc(r) ==
    /\ Started
    /\ pc[r] = "idle"
    /\ REQUEST_COUNTER' = REQUEST_COUNTER + 1
    /\ issued' = Append(issued, next_request_id(REQUEST_COUNTER))
    /\ msg' = [msg EXCEPT ![r] =
                 Message(RequestType(r), next_request_id(REQUEST_COUNTER),
                         PayloadOf(RequestType(r)))]
    /\ chan' = [chan EXCEPT ![r] = NewChan]
    /\ pc' = [pc EXCEPT ![r] = request_steps[1]]
    /\ UNCHANGED <<pending, pendingLock, writer, wire, shutdown, dispatcher,
                   dispMsg, result, response>>
    /\ UNCHANGED <<wireOwner, flushed, wrote, insLog, rmLog, orphans, faults, tap>>
    /\ afterExit' = IF dispatcher \in {"eof", "error"} THEN afterExit \cup {r}
                                                         ELSE afterExit
    /\ UNCHANGED lifeVars

\* pending.lock().await, before the insert and before the remove
Request_LockPending(r) ==
    /\ pc[r] \in {"ins_lock", "rm_lock"}
    /\ LockFree(pendingLock)
    /\ pendingLock' = r
    /\ pc' = [pc EXCEPT ![r] = IF pc[r] = "ins_lock" THEN "ins" ELSE "rm"]
    /\ UNCHANGED <<REQUEST_COUNTER, pending, writer, wire, shutdown, dispatcher,
                   dispMsg, msg, chan, result, response>>
    /\ UNCHANGED histVars
    /\ UNCHANGED <<afterExit, lifeVars>>

\* a Sender that is dropped without a send closes its channel
CloseSenders(ch, owners) ==
    [t \in DOMAIN ch |-> IF t \in owners THEN [ch[t] EXCEPT !.closed = TRUE] ELSE ch[t]]

\* the pending-table lock after the block `{ let mut map = ..; map.insert(..); }`:
\* the guard went out of scope
GuardKept(holder) == holder
GuardDropped(holder) == NoTask

\* map.insert(id.clone(), tx); the guard is dropped at the end of the block
Request_Insert(r) ==
    /\ pc[r] = "ins"
    /\ pending' = MapInsert(pending, msg[r].id, r)
    /\ chan' = IF msg[r].id \in DOMAIN pending
               THEN CloseSenders(chan, {pending[msg[r].id]})
               ELSE chan
    /\ insLog' = insLog \cup {msg[r].id}
    /\ pendingLock' = GuardDropped(pendingLock)
    /\ pc' = [pc EXCEPT ![r] = StepAfter("ins_lock")]
    /\ UNCHANGED <<REQUEST_COUNTER, writer, wire, shutdown, dispatcher, dispMsg,
                   msg, result, response>>
    /\ UNCHANGED <<wireOwner, flushed, wrote, issued, rmLog, orphans, faults, tap>>
    /\ UNCHANGED <<afterExit, lifeVars>>

\* the deadline of tokio::time::timeout comes, whatever the timeout_secs
NeverElapses(r) == FALSE
TimeoutElapses(r) == TRUE

\* tokio::time::timeout(.., rx).await: the value if the Sender sent one, else
\* RecvError if the Sender was dropped, else the deadline passes; the Receiver
\* is dropped when the await ends
Request_Wait(r) ==
    /\ pc[r] = "wait"
    /\ (chan[r].val = NoMsg /\ ~chan[r].closed) => TimeoutElapses(r)
    /\ chan' = [chan EXCEPT ![r].rx = FALSE]
    /\ IF chan[r].val # NoMsg
       THEN /\ response' = [response EXCEPT ![r] = chan[r].val]
            /\ result' = [result EXCEPT ![r] = "Ok"]
            /\ pc' = [pc EXCEPT ![r] = "done"]
       ELSE /\ result' = [result EXCEPT ![r] =
                            IF chan[r].closed THEN "BrokenPipe" ELSE "TimedOut"]
            /\ pc' = [pc EXCEPT ![r] = "rm_lock"]
            /\ UNCHANGED response
    /\ UNCHANGED <<REQUEST_COUNTER, pending, pendingLock, writer, wire, shutdown,
                   dispatcher, dispMsg, msg>>
    /\ UNCHANGED histVars
    /\ UNCHANGED <<afterExit, lifeVars>>

\* the table after a request() cleaned up following a timeout or a closed channel
KeepEntry(map, k) == map
TimeoutCleanup(map, k) == MapRemove(map, k)

\* map.remove(&id); Err(BrokenPipe) or Err(TimedOut)
Request_Remove(r) ==
    /\ pc[r] = "rm"
    /\ pending' = TimeoutCleanup(pending, msg[r].id)
    /\ chan' = CloseSenders(chan, {pending[k] : k \in DOMAIN pending \ DOMAIN pending'})
    /\ rmLog' = IF msg[r].id \in DOMAIN pending \ DOMAIN pending'
                THEN Append(rmLog, [id |-> msg[r].id, by |-> r])
                ELSE rmLog
    /\ pendingLock' = NoTask
    /\ pc' = [pc EXCEPT ![r] = "done"]
    /\ UNCHANGED <<REQUEST_COUNTER, writer, wire, shutdown, dispatcher, dispMsg,
                   msg, result, response>>
    /\ UNCHANGED <<wireOwner, flushed, wrote, issued, insLog, orphans, faults, tap>>
    /\ UNCHANGED <<afterExit, lifeVars>>

\* The handler future of a gateway request is dropped at one of its awaits
\* (hyper drops it with the connection): a write in progress stops after the
\* bytes already written, a held MutexGuard and the Receiver are dropped.
AwaitPoints == {"ins_lock", "send_lock", "send_len", "send_payload", "send_flush",
                "wait", "rm_lock"}
Writing(r) ==
    IF pc[r] = "send_len" THEN FrameHeader(msg[r])
    ELSE IF pc[r] = "send_payload" THEN to_vec(msg[r])
    ELSE <<>>
Request_Dropped(r) ==
    /\ Droppable(r)
    /\ pc[r] \in AwaitPoints
    /\ faults < MaxFaults
    /\ faults' = faults + 1
    /\ \E k \in PartialWrites(Writing(r)) : Emit(r, Writing(r), k)
    /\ writer' = IF writer = r THEN NoTask ELSE writer
    /\ chan' = [chan EXCEPT ![r].rx = FALSE]
    /\ pc' = [pc EXCEPT ![r] = "dropped"]
    /\ UNCHANGED <<REQUEST_COUNTER, pending, pendingLock, shutdown, dispatcher,
                   dispMsg, msg, result, response>>
    /\ UNCHANGED <<flushed, issued, insLog, rmLog, orphans, tap>>
    /\ UNCHANGED <<afterExit, lifeVars>>

\* ---------------------------------------------------------- protocol::recv
\* What recv returns on the bytes `stream` (closed: the peer closed its end):
\* "block" while the bytes it needs have not come, "eof" for Ok(None), "error"
\* for Err, "msg" for Ok(Some(m)).
recv(stream, closed) ==
    IF Len(stream) < 4
    THEN [kind |-> IF closed THEN "eof" ELSE "block", m |-> NoMsg]
    ELSE LET length == from_be_bytes(SubSeq(stream, 1, 4))
             after == SubSeq(stream, 5, Len(stream))
         IN  IF length > MaxFrameLen
             THEN [kind |-> "error", m |-> NoMsg]
             ELSE IF Len(after) < length
             THEN [kind |-> IF closed THEN "error" ELSE "block", m |-> NoMsg]
             ELSE LET m == from_slice(SubSeq(after, 1, length))
                  IN  [kind |-> IF m = NoMsg THEN "error" ELSE "msg", m |-> m]

\* --------------------------------------------------------------- the parent
\* What the parent proxy can make the read half deliver next: the complete
\* frame of a response with the id of some frame of the agent (of a request
\* waiting, of one already answered or timed out, of a frame nobody
\* registered), bytes that are no frame, or the end of the stream, possibly
\* in the middle of a frame.
ParentFrame(i) == Frame(Message("response", i, PayloadOf("response")))
ReaderInputs ==
    {[bytes |-> ParentFrame(issued[n]), closed |-> FALSE] : n \in 1..Len(issued)}
    \cup {[bytes |-> <<0, 0, 0, 0>>, closed |-> FALSE],
          [bytes |-> to_be_bytes(MaxFrameLen + 1), closed |-> FALSE],
          [bytes |-> <<0, 0, 0, 2, LBRACE, RBRACE>>, closed |-> FALSE],
          [bytes |-> <<0, 0, 0, 9, LBRACE>>, closed |-> TRUE],
          [bytes |-> <<0, 0>>, closed |-> TRUE],
          [bytes |-> <<>>, closed |-> TRUE]}

\* ------------------------------------------ protocol::response_dispatcher
\* the key the dispatcher looks up for a message it read
RouteKeyAny(map, m) ==
    IF m.id \notin DOMAIN map /\ DOMAIN map # {}
    THEN CHOOSE k \in DOMAIN map : TRUE
    ELSE m.id
RouteKey(map, m) == m.id

\* the table after the dispatcher took the entry it found
DispTake(map, k) == MapRemove(map, k)

\* the requests waiting on their Receiver, no value sent yet
Waiting == {r \in Requesters : pc[r] = "wait" /\ chan[r].val = NoMsg}

\* what the end of the dispatcher's loop does to the watch channel: nothing,
\* response_dispatcher holds a Receiver only
LatchSetOnExit(v, kind) == IF kind = "msg" THEN v ELSE TRUE
LatchAfterRecv(v, kind) == v

\* result = recv(&mut reader): Ok(None) and Err(e) break out of the loop;
\* on Ok(Some(msg)): let mut map = pending.lock().await
Disp_Recv ==
    /\ dispatcher = "running"
    /\ dispMsg = NoMsg
    /\ \E in \in ReaderInputs :
        LET got == recv(in.bytes, in.closed) IN
        /\ got.kind # "block"
        /\ got.kind = "msg" => LockFree(pendingLock)
        /\ pendingLock' = IF got.kind = "msg" THEN Dispatcher ELSE pendingLock
        /\ dispMsg' = got.m
        /\ dispatcher' = IF got.kind = "msg" THEN "running" ELSE got.kind
        /\ orphans' = IF got.kind = "msg" THEN orphans ELSE Waiting
        /\ shutdown' = LatchAfterRecv(shutdown, got.kind)
        /\ lastRead' = IF tap THEN in.bytes ELSE lastRead
    /\ UNCHANGED <<REQUEST_COUNTER, pending, writer, wire, pc, msg, chan,
                   result, response>>
    /\ UNCHANGED <<wireOwner, flushed, wrote, issued, insLog, rmLog, faults, tap>>
    /\ UNCHANGED <<afterExit, mainVars>>
    /\ UNCHANGED <<vsock_connected, workload, health_interval, attempts, gw>>

\* _ = shutdown_recv(&shutdown) => break
Disp_Shutdown ==
    /\ dispatcher = "running"
    /\ dispMsg = NoMsg
    /\ ShutdownSeen(shutdown)
    /\ dispatcher' = "shutdown"
    /\ UNCHANGED <<REQUEST_COUNTER, pending, pendingLock, writer, wire, shutdown,
                   dispMsg, pc, msg, chan, result, response>>
    /\ UNCHANGED histVars
    /\ UNCHANGED <<afterExit, lifeVars>>

\* if let Some(sender) = map.remove(&msg.id) { let _ = sender.send(msg); }
\* send stores the message if the Receiver is alive and gives it back if not
Disp_Route ==
    /\ pendingLock = Dispatcher
    /\ LET k == RouteKey(pending, dispMsg)
           found == k \in DOMAIN pending
           to == IF found THEN pending[k] ELSE NoTask
           got == found /\ to \in DOMAIN chan /\ chan[to].rx
       IN  /\ pending' = IF found THEN DispTake(pending, k) ELSE pending
           /\ chan' = IF got THEN [chan EXCEPT ![to].val = dispMsg] ELSE chan
           /\ rmLog' = IF k \in DOMAIN pending \ DOMAIN pending'
                       THEN Append(rmLog, [id |-> k, by |-> Dispatcher])
                       ELSE rmLog
    /\ pendingLock' = NoTask
    /\ dispMsg' = NoMsg
    /\ UNCHANGED <<REQUEST_COUNTER, writer, wire, shutdown, dispatcher, pc, msg,
                   result, response>>
    /\ UNCHANGED <<wireOwner, flushed, wrote, issued, insLog, orphans, faults, tap>>
    /\ UNCHANGED <<afterExit, lifeVars>>

\* ------------------------------------------------------ the specifications
\* what the tasks that write to the wire do
NextSenders ==
    \/ Main_Handshake
    \/ \E t \in Senders : send_log(t)
    \/ \E t \in Senders : send_health_report(t)
    \/ \E t \in Tasks : Send_Lock(t)
    \/ \E t \in Tasks : Send_WriteLen(t)
    \/ \E t \in Tasks : Send_WritePayload(t)
    \/ \E t \in Tasks : Send_Flush(t)
    \/ \E r \in Requesters : Request_Alloc(r)
    \/ \E r \in Requesters : Request_LockPending(r)
    \/ \E r \in Requesters : Request_Insert(r)
    \/ \E r \in Requesters : Request_Wait(r)
    \/ \E r \in Requesters : Request_Remove(r)
    \/ \E r \in Requesters : Request_Dropped(r)

Next ==
    \/ NextSenders
    \/ Shutdown_Flip
    \/ Disp_Recv
    \/ Disp_Shutdown
    \/ Disp_Route

Spec == Init /\ [][Next]_vars

\* The wire as the parent sees it, whatever the parent answers: the reading
\* side is left out, so a request that was sent ends by its timeout.
SpecWire == InitWire /\ [][NextSenders]_vars

\* Any task calls next_request_id() any number of times (send_log once per
\* log line, request() once per gateway request): REQUEST_COUNTER.fetch_add is
\* one atomic step, and the caller keeps the id in the Message it builds.
Take_Id(t) ==
    /\ REQUEST_COUNTER < MaxIds
    /\ REQUEST_COUNTER' = REQUEST_COUNTER + 1
    /\ issued' = Append(issued, next_request_id(REQUEST_COUNTER))
    /\ msg' = [msg EXCEPT ![t] =
                 Message("log", next_request_id(REQUEST_COUNTER), PayloadOf("log"))]
    /\ UNCHANGED <<pending, pendingLock, writer, wire, shutdown, dispatcher,
                   dispMsg, pc, chan, result, response>>
    /\ UNCHANGED <<wireOwner, flushed, wrote, insLog, rmLog, orphans, faults, tap>>
    /\ UNCHANGED <<afterExit, lifeVars>>

NextIds == \E t \in Tasks : Take_Id(t)
SpecIds == Init /\ [][NextIds]_vars

\* ------------------------------------------- orchestrator and supervisor
\* The frames sent after the handshake are recorded whole, in the order the
\* writer mutex serialises them: [type, tag, code, wl], where tag is the text
\* of a log line or the status of a health report, code the exit code if the
\* frame carries one, wl the workload_type of a health report.
Frm(type, tag, code, wl) == [type |-> type, tag |-> tag, code |-> code, wl |-> wl]
LogFrame(tag) == Frm("log", tag, {}, "none")

muxNoLatch == <<REQUEST_COUNTER, pending, pendingLock, writer, wire, dispatcher,
                dispMsg, pc, msg, chan, result, response>>
histNoFaults == <<wireOwner, flushed, wrote, issued, insLog, rmLog, orphans, tap,
                  afterExit>>

\* protocol::send of frame f by a caller that goes on whatever it returned:
\* the frame is on the wire (ok), or the send failed
SendFrameResult(f, ok) ==
    /\ (~ok) => faults < MaxFaults
    /\ faults' = IF ok THEN faults ELSE faults + 1
    /\ frames' = IF ok THEN Append(frames, f) ELSE frames
SendFrame(f) == \E ok \in BOOLEAN : SendFrameResult(f, ok)

\* watch::Sender::send(true)
LatchToggle(v) == ~v
LatchSet(v) == TRUE

\* main: logging::send_log("Enclave proxy started ...")
Main_StartupLog ==
    /\ Started
    /\ life = "boot"
    /\ SendFrame(LogFrame("started"))
    /\ life' = "pcr"
    /\ UNCHANGED <<muxVars, histNoFaults>>
    /\ UNCHANGED <<sideVars, loops, sig, sup, child, out, ticks>>

\* main: logging::fetch_pcrs, seen from main: the pcr_request frame is sent
\* and a response with PCR0 comes (got), or the request fails or times out
Main_FetchPcrs ==
    /\ life = "pcr"
    /\ \E ok, got \in BOOLEAN :
        /\ got => ok
        /\ SendFrameResult(Frm("pcr_request", "pcr", {}, "none"), ok)
        /\ life' = IF got THEN "pcr0" ELSE "gateways"
    /\ UNCHANGED <<muxVars, histNoFaults>>
    /\ UNCHANGED <<sideVars, loops, sig, sup, child, out, ticks>>

\* main: send_log("PCR0: ...")
Main_LogPcr0 ==
    /\ life = "pcr0"
    /\ SendFrame(LogFrame("pcr0"))
    /\ life' = "gateways"
    /\ UNCHANGED <<muxVars, histNoFaults>>
    /\ UNCHANGED <<sideVars, loops, sig, sup, child, out, ticks>>

\* main: the three tokio::spawn of http_proxy, kms_proxy and health serve
Main_SpawnGateways ==
    /\ life = "gateways"
    /\ loops' = [g \in Gateways |-> "bind"]
    /\ life' = "signals"
    /\ UNCHANGED <<muxVars, histVars, afterExit>>
    /\ UNCHANGED <<sideVars, sig, sup, child, out, ticks, frames>>

\* main: tokio::spawn of the signal task
Main_SpawnSignals ==
    /\ life = "signals"
    /\ sig' = "waiting"
    /\ life' = "resolve"
    /\ UNCHANGED <<muxVars, histVars, afterExit>>
    /\ UNCHANGED <<sideVars, loops, sup, child, out, ticks, frames>>

\* main: supervisor::resolve_user_command() is Some (cmd) or None
Main_Resolve ==
    /\ life = "resolve"
    /\ \E cmd \in BOOLEAN :
        /\ life' = IF cmd THEN "run" ELSE "warn"
        /\ sup' = IF cmd THEN "start" ELSE sup
    /\ UNCHANGED <<muxVars, histVars, afterExit>>
    /\ UNCHANGED <<sideVars, loops, sig, child, out, ticks, frames>>

\* main: send_log("No user command configured; running in standalone mode")
Main_StandaloneLog ==
    /\ life = "warn"
    /\ SendFrame(LogFrame("standalone"))
    /\ life' = "standalone"
    /\ UNCHANGED <<muxVars, histNoFaults>>
    /\ UNCHANGED <<sideVars, loops, sig, sup, child, out, ticks>>

\* main: while !*rx.borrow() { rx.changed().await }
Main_StandaloneWait ==
    /\ life = "standalone"
    /\ ShutdownSeen(shutdown)
    /\ life' = "final"
    /\ UNCHANGED <<muxVars, histVars, afterExit>>
    /\ UNCHANGED <<sideVars, loops, sig, sup, child, out, ticks,
                   frames>>

\* main: send_log("Enclave proxy shutting down"), sleep, return
Main_FinalLog ==
    /\ life = "final"
    /\ SendFrame(LogFrame("shutting_down"))
    /\ life' = "exited"
    /\ UNCHANGED <<muxVars, histNoFaults>>
    /\ UNCHANGED <<sideVars, loops, sig, sup, child, out, ticks>>

\* the signal task: SIGTERM or SIGINT comes, shutdown_tx_signal.send(true)
Signal_Recv ==
    /\ sig = "waiting"
    /\ life \notin {"exited", "panicked"}
    /\ shutdown' = LatchSet(shutdown)
    /\ sig' = "done"
    /\ UNCHANGED <<muxNoLatch, histVars, afterExit>>
    /\ UNCHANGED <<sideVars, life, loops, sup, child, out, ticks,
                   frames>>

\* serve: TcpListener::bind succeeds, or fails and serve returns
Gateway_Bind(g) ==
    /\ loops[g] = "bind"
    /\ \E ok \in BOOLEAN :
        loops' = [loops EXCEPT ![g] = IF ok THEN "select" ELSE "returned"]
    /\ UNCHANGED <<muxVars, histVars, afterExit>>
    /\ UNCHANGED <<sideVars, life, sig, sup, child, out, ticks,
                   frames>>

\* serve: the accept branch of the select is taken
Gateway_Accept(g) ==
    /\ loops[g] = "select"
    /\ loops' = [loops EXCEPT ![g] = "accepted"]
    /\ UNCHANGED <<muxVars, histVars, afterExit>>
    /\ UNCHANGED <<sideVars, life, sig, sup, child, out, ticks,
                   frames>>

\* serve: the connection is handed to a new task (or the accept error is
\* logged) and the loop goes round
Gateway_Spawn(g) ==
    /\ loops[g] = "accepted"
    /\ loops' = [loops EXCEPT ![g] = "select"]
    /\ UNCHANGED <<muxVars, histVars, afterExit>>
    /\ UNCHANGED <<sideVars, life, sig, sup, child, out, ticks,
                   frames>>

\* serve: _ = wait_shutdown(&mut shutdown) => break
Gateway_Shutdown(g) ==
    /\ loops[g] = "select"
    /\ ShutdownSeen(shutdown)
    /\ loops' = [loops EXCEPT ![g] = "returned"]
    /\ UNCHANGED <<muxVars, histVars, afterExit>>
    /\ UNCHANGED <<sideVars, life, sig, sup, child, out, ticks,
                   frames>>

\* ------------------------------------------------ http_proxy::handle_request
\* payload.status of the parent's response: absent, or a JSON number
Statuses == {{}, {200}, {404}, {99}, {1000}, {65736}}
\* what protocol::request returns to the handler
Outcomes == {"Ok", "TimedOut", "BrokenPipe", "IoError"}
\* `as u16`
AsU16(n) == n % 65536
\* http::StatusCode::from_u16 accepts 100..=999
ValidStatus(n) == n \in 100..999
\* p.get("status").and_then(|v| v.as_u64()).unwrap_or(502) as u16
StatusOf(status) == IF status = {} THEN 502 ELSE AsU16(CHOOSE n \in status : TRUE)
\* the Err arm: 504 for TimedOut, 502 for every other error
ErrorStatus(outcome) == IF outcome = "TimedOut" THEN 504 ELSE 502

gwVarsRest == <<vsock_connected, workload, health_interval, attempts, lastRead>>

\* hyper calls handle_request for a request on an accepted connection
Http_Start ==
    /\ loops["http"] \in {"select", "accepted"}
    /\ gw.pc = "idle"
    /\ gw' = [gw EXCEPT !.pc = "body"]
    /\ UNCHANGED <<muxVars, histVars, afterExit, mainVars, gwVarsRest>>

\* req.collect().await: the body, or an error, answered with 502
Http_ReadBody ==
    /\ gw.pc = "body"
    /\ \E ok \in BOOLEAN :
        gw' = IF ok THEN [gw EXCEPT !.pc = "request"]
              ELSE [gw EXCEPT !.pc = "returned", !.http = {502}]
    /\ UNCHANGED <<muxVars, histVars, afterExit, mainVars, gwVarsRest>>

\* protocol::request(.., "http_request", payload, 60).await, seen from the
\* handler: what it returned, and with Ok the status of the response; the
\* request frame went out unless its send failed
Http_Request ==
    /\ gw.pc = "request"
    /\ \E o \in Outcomes, st \in Statuses :
        /\ (o # "Ok") => st = {}
        /\ gw' = [gw EXCEPT !.pc = "respond", !.outcome = o, !.status = st]
        /\ SendFrameResult(Frm("http_request", "http", {}, "none"), o # "IoError")
    /\ UNCHANGED <<muxVars, histNoFaults, gwVarsRest>>
    /\ UNCHANGED <<life, loops, sig, sup, child, out, ticks>>

\* the two arms of the match: Response::builder().status(..)...body(..).unwrap()
\* panics when the builder holds an error, as it does for a status that
\* StatusCode rejects
Http_Respond ==
    /\ gw.pc = "respond"
    /\ LET st == IF gw.outcome = "Ok" THEN StatusOf(gw.status)
                 ELSE ErrorStatus(gw.outcome)
       IN  gw' = IF ValidStatus(st)
                 THEN [gw EXCEPT !.pc = "returned", !.http = {st}]
                 ELSE [gw EXCEPT !.pc = "panicked"]
    /\ UNCHANGED <<muxVars, histVars, afterExit, mainVars, gwVarsRest>>

\* health::handle_request: the vsock field of the JSON it answers
health_handle_request == IF vsock_connected THEN "connected" ELSE "disconnected"

\* ---------------------------------------------------------- supervisor.rs
\* the exit codes of the child in the runs checked: success and a failure
Codes == {0, 7}
\* match workload_type: "service" | "daemon" run run_service, the rest run_batch
PolicyServiceByDefault(w) == IF w = "batch" THEN "batch" ELSE "service"
Policy(w) == IF w \in {"service", "daemon"} THEN "service" ELSE "batch"
KnownWorkload(w) == w \in {"batch", "service", "daemon"}
\* where the supervisor waits in a select
SelectOrSleeping == {"batch_select", "svc_select", "sleep"}
SelectStates == {"batch_select", "svc_select"}
\* the workload policy has returned: why
PolicyDone == {"done_exit", "done_wait_err", "done_kill", "done_crash"}

\* run: send_log("Starting user application: ...")
Sup_StartLog ==
    /\ sup = "start"
    /\ SendFrame(LogFrame("starting"))
    /\ sup' = "spawn"
    /\ UNCHANGED <<muxVars, histNoFaults>>
    /\ UNCHANGED <<sideVars, life, loops, sig, child, out, ticks>>

\* run: Command::spawn, through /bin/sh or directly; the child starts, and
\* writes some lines to its pipes, or neither spawn succeeds
Sup_Spawn ==
    /\ sup = "spawn"
    /\ \E ok \in BOOLEAN :
        IF ok
        THEN /\ child' = [state |-> "running", code |-> {}]
             /\ out' \in [Pipes -> 0..MaxLines]
             /\ sup' = IF ~KnownWorkload(workload) THEN "warn"
                       ELSE IF Policy(workload) = "service" THEN "svc_start"
                       ELSE "batch_select"
        ELSE /\ sup' = "spawn_failed"
             /\ UNCHANGED <<child, out>>
    /\ UNCHANGED <<muxVars, histVars, afterExit>>
    /\ UNCHANGED <<sideVars, life, loops, sig, ticks, frames>>

\* run: send_log("Failed to start user app") / ("Empty user command"); return
Sup_SpawnFailedLog ==
    /\ sup = "spawn_failed"
    /\ SendFrame(LogFrame("spawn_failed"))
    /\ sup' = "returned"
    /\ life' = "final"
    /\ UNCHANGED <<muxVars, histNoFaults>>
    /\ UNCHANGED <<sideVars, loops, sig, child, out, ticks>>

\* run: send_log("Unknown workload type ..., treating as batch")
Sup_WarnLog ==
    /\ sup = "warn"
    /\ SendFrame(LogFrame("unknown_workload"))
    /\ sup' = "batch_select"
    /\ UNCHANGED <<muxVars, histNoFaults>>
    /\ UNCHANGED <<sideVars, life, loops, sig, child, out, ticks>>

\* the tasks run spawns for stdout and stderr: one log frame per line read
Stream_Line(p) ==
    /\ out[p] > 0
    /\ SendFrame(LogFrame(IF p = "stdout" THEN "app" ELSE "app_err"))
    /\ out' = [out EXCEPT ![p] = out[p] - 1]
    /\ UNCHANGED <<muxVars, histNoFaults>>
    /\ UNCHANGED <<sideVars, life, loops, sig, sup, child, ticks>>

\* the user process exits on its own
Child_Exit ==
    /\ child.state = "running"
    /\ \E c \in Codes : child' = [state |-> "exited", code |-> {c}]
    /\ UNCHANGED <<muxVars, histVars, afterExit>>
    /\ UNCHANGED <<sideVars, life, loops, sig, sup, out, ticks,
                   frames>>

\* run_batch after child.wait() returned Ok: log the exit code, report, sleep
batch_exit_steps_report_first == <<"report", "exit_log", "sleep", "done_exit">>
batch_exit_steps == <<"exit_log", "report", "sleep", "done_exit">>
BatchStepAfter(st) ==
    LET i == CHOOSE k \in 1..Len(batch_exit_steps) : batch_exit_steps[k] = st
    IN  batch_exit_steps[i + 1]

\* run_batch: result = child.wait() => Ok(status)
Sup_BatchWait ==
    /\ sup = "batch_select"
    /\ child.state = "exited"
    /\ sup' = batch_exit_steps[1]
    /\ UNCHANGED <<muxVars, histVars, afterExit>>
    /\ UNCHANGED <<sideVars, life, loops, sig, child, out, ticks,
                   frames>>

\* run_batch: result = child.wait() => Err(e)
Sup_BatchWaitErr ==
    /\ sup = "batch_select"
    /\ faults < MaxFaults
    /\ faults' = faults + 1
    /\ sup' = "wait_err_log"
    /\ UNCHANGED <<muxVars, histNoFaults>>
    /\ UNCHANGED <<sideVars, life, loops, sig, child, out, ticks,
                   frames>>

\* run_batch: send_log("Failed to wait for process")
Sup_WaitErrLog ==
    /\ sup = "wait_err_log"
    /\ SendFrame(LogFrame("wait_failed"))
    /\ sup' = "done_wait_err"
    /\ UNCHANGED <<muxVars, histNoFaults>>
    /\ UNCHANGED <<sideVars, life, loops, sig, child, out, ticks>>

\* run_batch: send_log("Application exited with code {code}")
Sup_ExitLog ==
    /\ sup = "exit_log"
    /\ SendFrame(Frm("log", "exited", child.code, "none"))
    /\ sup' = BatchStepAfter("exit_log")
    /\ UNCHANGED <<muxVars, histNoFaults>>
    /\ UNCHANGED <<sideVars, life, loops, sig, child, out, ticks>>

\* run_batch: send_health_report("completed", Some(code), "batch")
Sup_BatchReport ==
    /\ sup = "report"
    /\ SendFrame(Frm("health_report", "completed", child.code, "batch"))
    /\ sup' = BatchStepAfter("report")
    /\ UNCHANGED <<muxVars, histNoFaults>>
    /\ UNCHANGED <<sideVars, life, loops, sig, child, out, ticks>>

\* run_batch: tokio::time::sleep(5 s), then run_batch returns
Sup_BatchSleep ==
    /\ sup = "sleep"
    /\ sup' = BatchStepAfter("sleep")
    /\ UNCHANGED <<muxVars, histVars, afterExit>>
    /\ UNCHANGED <<sideVars, life, loops, sig, child, out, ticks,
                   frames>>

\* run_batch, run_service: _ = wait_shutdown(shutdown) =>
Sup_Shutdown ==
    /\ sup \in SelectStates
    /\ ShutdownSeen(shutdown)
    /\ sup' = "kill_log"
    /\ UNCHANGED <<muxVars, histVars, afterExit>>
    /\ UNCHANGED <<sideVars, life, loops, sig, child, out, ticks,
                   frames>>

\* send_log("Shutdown signal received, terminating process" / "... service")
Sup_KillLog ==
    /\ sup = "kill_log"
    /\ SendFrame(LogFrame(IF Policy(workload) = "service" THEN "terminating_service"
                          ELSE "terminating_process"))
    /\ sup' = "kill"
    /\ UNCHANGED <<muxVars, histNoFaults>>
    /\ UNCHANGED <<sideVars, life, loops, sig, child, out, ticks>>

\* child.kill().await: SIGKILL and wait; a child that had exited stays so
LeaveChild(c) == c
KillChild(c) == IF c.state = "running" THEN [c EXCEPT !.state = "killed"] ELSE c

\* let _ = child.kill().await; the policy returns
Sup_Kill ==
    /\ sup = "kill"
    /\ child' = KillChild(child)
    /\ sup' = "done_kill"
    /\ UNCHANGED <<muxVars, histVars, afterExit>>
    /\ UNCHANGED <<sideVars, life, loops, sig, out, ticks, frames>>

\* run_service: tokio::time::interval(Duration::from_secs(health_interval)),
\* which panics if the period is zero; the panic unwinds main
Sup_Interval ==
    /\ sup = "svc_start"
    /\ sup' = IF health_interval = 0 THEN "panicked" ELSE "svc_select"
    /\ life' = IF health_interval = 0 THEN "panicked" ELSE life
    /\ UNCHANGED <<muxVars, histVars, afterExit>>
    /\ UNCHANGED <<sideVars, loops, sig, child, out, ticks, frames>>

\* run_service, at a tick: what child.try_wait() found decides the branch
TickAlwaysRunning(c) == "running_report"
TickBranch(c) == IF c.state = "exited" THEN "crash_log" ELSE "running_report"

\* run_service: _ = interval.tick() => match child.try_wait() { Ok(..) }
Sup_Tick ==
    /\ sup = "svc_select"
    /\ ticks < MaxTicks
    /\ ticks' = ticks + 1
    /\ sup' = TickBranch(child)
    /\ UNCHANGED <<muxVars, histVars, afterExit>>
    /\ UNCHANGED <<sideVars, life, loops, sig, child, out, frames>>

\* run_service: _ = interval.tick() => match child.try_wait() { Err(e) }
Sup_TickErr ==
    /\ sup = "svc_select"
    /\ ticks < MaxTicks
    /\ faults < MaxFaults
    /\ ticks' = ticks + 1
    /\ faults' = faults + 1
    /\ sup' = "check_err_log"
    /\ UNCHANGED <<muxVars, histNoFaults>>
    /\ UNCHANGED <<sideVars, life, loops, sig, child, out, frames>>

\* run_service: send_log("Failed to check process"), next round
Sup_CheckErrLog ==
    /\ sup = "check_err_log"
    /\ SendFrame(LogFrame("check_failed"))
    /\ sup' = "svc_select"
    /\ UNCHANGED <<muxVars, histNoFaults>>
    /\ UNCHANGED <<sideVars, life, loops, sig, child, out, ticks>>

\* run_service: send_log("Service exited unexpectedly with code {code}")
Sup_CrashLog ==
    /\ sup = "crash_log"
    /\ SendFrame(Frm("log", "crashed", child.code, "none"))
    /\ sup' = "crash_report"
    /\ UNCHANGED <<muxVars, histNoFaults>>
    /\ UNCHANGED <<sideVars, life, loops, sig, child, out, ticks>>

\* run_service: send_health_report("crashed", Some(code), "service"); return
Sup_CrashReport ==
    /\ sup = "crash_report"
    /\ SendFrame(Frm("health_report", "crashed", child.code, "service"))
    /\ sup' = "done_crash"
    /\ UNCHANGED <<muxVars, histNoFaults>>
    /\ UNCHANGED <<sideVars, life, loops, sig, child, out, ticks>>

\* run_service: send_health_report("running", None, "service"), next round
Sup_RunningReport ==
    /\ sup = "running_report"
    /\ SendFrame(Frm("health_report", "running", {}, "service"))
    /\ sup' = "svc_select"
    /\ UNCHANGED <<muxVars, histNoFaults>>
    /\ UNCHANGED <<sideVars, life, loops, sig, child, out, ticks>>

\* run, after the policy returned: what it leaves in the watch channel
RunLeavesLatch(v) == v
RunSetsLatch(v) == LatchSet(v)

\* run: let _ = shutdown_tx.send(true); back in main
Sup_Return ==
    /\ sup \in PolicyDone
    /\ shutdown' = RunSetsLatch(shutdown)
    /\ sup' = "returned"
    /\ life' = "final"
    /\ UNCHANGED <<muxNoLatch, histVars, afterExit>>
    /\ UNCHANGED <<sideVars, loops, sig, child, out, ticks, frames>>

\* ------------------------------------------- specifications of the above
\* main's handshake, byte by byte
NextHandshake ==
    \/ Main_Handshake
    \/ Send_Lock(MainTask)
    \/ Send_WriteLen(MainTask)
    \/ Send_WritePayload(MainTask)
    \/ Send_Flush(MainTask)

\* main after the handshake, up to the supervisor
NextMain ==
    \/ Main_StartupLog
    \/ Main_FetchPcrs
    \/ Main_LogPcr0
    \/ Main_SpawnGateways
    \/ Main_SpawnSignals
    \/ Signal_Recv

NextSup ==
    \/ NextHandshake
    \/ NextMain
    \/ Main_Resolve
    \/ Main_StandaloneLog
    \/ Main_StandaloneWait
    \/ Main_FinalLog
    \/ Sup_StartLog
    \/ Sup_Spawn
    \/ Sup_SpawnFailedLog
    \/ Sup_WarnLog
    \/ \E p \in Pipes : Stream_Line(p)
    \/ Child_Exit
    \/ Sup_BatchWait
    \/ Sup_BatchWaitErr
    \/ Sup_WaitErrLog
    \/ Sup_ExitLog
    \/ Sup_BatchReport
    \/ Sup_BatchSleep
    \/ Sup_Shutdown
    \/ Sup_KillLog
    \/ Sup_Kill
    \/ Sup_Interval
    \/ Sup_Tick
    \/ Sup_TickErr
    \/ Sup_CheckErrLog
    \/ Sup_CrashLog
    \/ Sup_CrashReport
    \/ Sup_RunningReport
    \/ Sup_Return

\* The supervisor's task always gets to run its next step (tokio schedules
\* every ready task), and a select that is polled again and again with the
\* shutdown branch ready takes that branch at some point; nothing makes the
\* child exit or a signal come.
SupSteps ==
    \/ Sup_StartLog \/ Sup_Spawn \/ Sup_SpawnFailedLog \/ Sup_WarnLog
    \/ Sup_WaitErrLog \/ Sup_ExitLog \/ Sup_BatchReport \/ Sup_BatchSleep
    \/ Sup_KillLog \/ Sup_Kill \/ Sup_Interval \/ Sup_CheckErrLog \/ Sup_CrashLog
    \/ Sup_CrashReport \/ Sup_RunningReport \/ Sup_Return
SpecSup ==
    InitLife /\ [][NextSup]_vars /\ WF_vars(SupSteps) /\ SF_vars(Sup_Shutdown)

\* The whole process from its first connect attempt.  Main, too, always gets
\* to run its next step.
NextProc ==
    \/ Main_Connect
    \/ NextSup
MainSteps ==
    \/ Main_Resolve \/ Main_StandaloneLog \/ Main_StandaloneWait \/ Main_FinalLog
SpecProc ==
    /\ InitProc
    /\ [][NextProc]_vars
    /\ WF_vars(SupSteps)
    /\ SF_vars(Sup_Shutdown)
    /\ WF_vars(MainSteps)

\* The dispatcher, the accept loops and the batch supervisor side by side,
\* from the handshake to main's return.
NextKeep ==
    \/ NextHandshake
    \/ NextMain
    \/ Main_Resolve
    \/ Main_StandaloneLog
    \/ Main_StandaloneWait
    \/ Main_FinalLog
    \/ Disp_Recv
    \/ Disp_Route
    \/ Disp_Shutdown
    \/ \E g \in Gateways : Gateway_Bind(g)
    \/ \E g \in Gateways : Gateway_Shutdown(g)
    \/ Sup_StartLog
    \/ Sup_Spawn
    \/ Sup_SpawnFailedLog
    \/ Child_Exit
    \/ Sup_BatchWait
    \/ Sup_ExitLog
    \/ Sup_BatchReport
    \/ Sup_BatchSleep
    \/ Sup_Shutdown
    \/ Sup_KillLog
    \/ Sup_Kill
    \/ Sup_Return
SpecKeep == Init /\ [][NextKeep]_vars

\* The HTTP gateway: main up to the signal task, the accept loop, one handler.
NextHttp ==
    \/ NextHandshake
    \/ NextMain
    \/ Gateway_Bind("http")
    \/ Gateway_Accept("http")
    \/ Gateway_Spawn("http")
    \/ Gateway_Shutdown("http")
    \/ Http_Start
    \/ Http_ReadBody
    \/ Http_Request
    \/ Http_Respond
SpecHttp == Init /\ [][NextHttp]_vars

\* the code with which the process has ended, if it has: exit(1) after the
\* last connect attempt or a failed handshake, 101 after a panic of main, 0
\* when main returned
ExitCode ==
    IF pc[MainTask] \in {"exhausted", "exit1"} THEN {1}
    ELSE IF life = "panicked" THEN {101}
    ELSE IF life = "exited" THEN {0}
    ELSE {}

\* the dispatcher and the accept loops, with main up to the signal task
NextLoops ==
    \/ NextHandshake
    \/ NextMain
    \/ Disp_Recv
    \/ Disp_Shutdown
    \/ Disp_Route
    \/ \E g \in Gateways : Gateway_Bind(g)
    \/ \E g \in Gateways : Gateway_Accept(g)
    \/ \E g \in Gateways : Gateway_Spawn(g)
    \/ \E g \in Gateways : Gateway_Shutdown(g)

\* Every task gets to run its next step, and a select polled again and again
\* with the shutdown branch ready takes it at some point (tokio's select!
\* picks among the ready branches at random).
SpecLoops ==
    /\ InitLife
    /\ [][NextLoops]_vars
    /\ WF_vars(Disp_Route)
    /\ SF_vars(Disp_Shutdown)
    /\ \A g \in Gateways : WF_vars(Gateway_Bind(g) \/ Gateway_Spawn(g))
    /\ \A g \in Gateways : SF_vars(Gateway_Shutdown(g))

\* The requests and the dispatcher alone.  Every task gets to run its next
\* step; tokio's Mutex hands the lock to its waiters in turn, so a task that
\* waits for a lock that is released again and again gets it.
NextReq ==
    \/ NextHandshake
    \/ \E r \in Requesters : Send_Lock(r)
    \/ \E r \in Requesters : Send_WriteLen(r)
    \/ \E r \in Requesters : Send_WritePayload(r)
    \/ \E r \in Requesters : Send_Flush(r)
    \/ \E r \in Requesters : Request_Alloc(r)
    \/ \E r \in Requesters : Request_LockPending(r)
    \/ \E r \in Requesters : Request_Insert(r)
    \/ \E r \in Requesters : Request_Wait(r)
    \/ \E r \in Requesters : Request_Remove(r)
    \/ \E r \in Requesters : Request_Dropped(r)
    \/ Disp_Recv
    \/ Disp_Route
RequestSteps(r) ==
    \/ Send_WriteLen(r) \/ Send_WritePayload(r) \/ Send_Flush(r)
    \/ Request_Insert(r) \/ Request_Wait(r) \/ Request_Remove(r)
SpecReq ==
    /\ Init
    /\ [][NextReq]_vars
    /\ WF_vars(Disp_Route)
    /\ \A r \in Requesters : WF_vars(RequestSteps(r))
    /\ \A r \in Requesters : SF_vars(Request_LockPending(r))
    /\ \A r \in Requesters : SF_vars(Send_Lock(r))

\* The start of a process run, the bytes on the wire recorded: the handshake,
\* the log and health_report senders and one gateway request byte by byte,
\* main up to supervisor::run's first log, and the dispatcher's reads.
GatewayTask == CHOOSE r \in Requesters : RequestType(r) = "http_request"
NextBoot ==
    \/ NextHandshake
    \/ \E t \in Senders : send_log(t)
    \/ \E t \in Senders : send_health_report(t)
    \/ \E t \in Senders \cup {GatewayTask} : Send_Lock(t)
    \/ \E t \in Senders \cup {GatewayTask} : Send_WriteLen(t)
    \/ \E t \in Senders \cup {GatewayTask} : Send_WritePayload(t)
    \/ \E t \in Senders \cup {GatewayTask} : Send_Flush(t)
    \/ Request_Alloc(GatewayTask)
    \/ Request_LockPending(GatewayTask)
    \/ Request_Insert(GatewayTask)
    \/ Request_Wait(GatewayTask)
    \/ Request_Remove(GatewayTask)
    \/ NextMain
    \/ Main_Resolve
    \/ Sup_StartLog
    \/ Disp_Recv
SpecBoot == InitWire /\ [][NextBoot]_vars

\* ------------------------------------------------------------- properties
\* the dispatcher's routing step: it holds the pending lock and gives it up
RouteStep == pendingLock = Dispatcher /\ pendingLock' = NoTask
Returned(r) == pc[r] = "done"
RemovalsOf(i) == {n \in 1..Len(rmLog) : rmLog[n].id = i}

\* C1 as amended: a response with id R whose entry is in the table takes the
\* entry out and is handed to the request that registered R if that request
\* still holds its Receiver, and to nobody if it does not; no other waiter's
\* channel changes; with no entry for R the table and every channel are
\* unchanged; a request() that returns a Message returns one with its own id.
C1_ReturnsOwnId ==
    \A r \in Requesters : result[r] = "Ok" =>
        /\ response[r].id = msg[r].id
        /\ response[r].msg_type = "response"
C1_Routing ==
    RouteStep =>
        IF dispMsg.id \in DOMAIN pending
        THEN LET w == pending[dispMsg.id] IN
             /\ msg[w].id = dispMsg.id
             /\ pending' = MapRemove(pending, dispMsg.id)
             /\ \A r \in Requesters \ {w} : chan'[r] = chan[r]
             /\ chan'[w] = IF chan[w].rx THEN [chan[w] EXCEPT !.val = dispMsg]
                           ELSE chan[w]
        ELSE pending' = pending /\ chan' = chan
C1_Theorem == []C1_ReturnsOwnId /\ [][C1_Routing]_vars
\* C1 witness: one request returned the response with its id while another
\* request, not notified, is still registered and waiting
C1_Witness ==
    \E r, o \in Requesters :
        /\ r # o
        /\ Returned(r) /\ result[r] = "Ok" /\ response[r].id = msg[r].id
        /\ pc[o] = "wait" /\ chan[o].val = NoMsg /\ msg[o].id \in DOMAIN pending
\* C1 as stated: a response whose entry is still in the table is handed to
\* the request that registered it (read here for the requests that are still
\* running: neither returned nor dropped by their caller)
C1_Original ==
    [][(RouteStep /\ dispMsg.id \in DOMAIN pending
          /\ pc[pending[dispMsg.id]] \notin {"done", "dropped"})
         => chan'[pending[dispMsg.id]].val = dispMsg]_vars

\* C2: the k-th id issued is "req-" followed by the decimal digits of k, so
\* the ids increase from 1 and no two calls, by whichever tasks, get the same
RECURSIVE DigitsValue(_)
DigitsValue(d) ==
    IF d = <<>> THEN 0
    ELSE 10 * DigitsValue(SubSeq(d, 1, Len(d) - 1)) + (d[Len(d)] - DIGIT0)
IsReqId(i, k) ==
    /\ Len(i) > Len(ReqPrefix)
    /\ SubSeq(i, 1, Len(ReqPrefix)) = ReqPrefix
    /\ \A n \in (Len(ReqPrefix) + 1)..Len(i) : i[n] \in DIGIT0..(DIGIT0 + 9)
    /\ i[Len(ReqPrefix) + 1] # DIGIT0
    /\ DigitsValue(SubSeq(i, Len(ReqPrefix) + 1, Len(i))) = k
C2_Theorem ==
    /\ Len(issued) = REQUEST_COUNTER
    /\ \A k \in 1..Len(issued) : IsReqId(issued[k], k)
    /\ \A j, k \in 1..Len(issued) : j # k => issued[j] # issued[k]
    /\ \A t, u \in Tasks : t # u /\ msg[t] # NoMsg /\ msg[u] # NoMsg
                             => msg[t].id # msg[u].id
\* C2 witness: every task has taken an id and the ids have reached two digits
C2_Witness ==
    /\ Len(issued) = MaxIds
    /\ Len(issued[MaxIds]) > Len(ReqPrefix) + 1
    /\ \A t \in Tasks : msg[t] # NoMsg

\* C3: the bytes a task's send wrote are one unbroken run on the wire, which
\* for a frame that was flushed ends where the flush found the wire
C3_Theorem ==
    /\ \A j \in 1..(Len(wireOwner) - 1) :
         wireOwner[j] # wireOwner[j + 1] =>
             \A k \in (j + 1)..Len(wireOwner) : wireOwner[k] # wireOwner[j]
    /\ \A t \in Tasks : flushed[t] > 0 =>
         /\ wireOwner[flushed[t]] = t
         /\ \A k \in (flushed[t] + 1)..Len(wireOwner) : wireOwner[k] # t
\* C3 witness: a task is in the middle of its frame, after an earlier frame on
\* the wire, while another task waits for the writer
C3_Witness ==
    \E t, u \in Tasks :
        /\ t # u
        /\ writer = t /\ pc[t] = "send_payload" /\ t \in wrote
        /\ pc[u] = "send_lock"
        /\ flushed[MainTask] > 0

\* C4: the wire is complete frames, each a length L and L bytes that decode
\* to a Message, followed at most by the beginning of one more frame
RECURSIVE WellFramed(_)
WellFramed(s) ==
    IF Len(s) < 4 THEN TRUE
    ELSE LET length == from_be_bytes(SubSeq(s, 1, 4)) IN
         IF Len(s) - 4 < length THEN length <= MaxFrameLen
         ELSE /\ from_slice(SubSeq(s, 5, 4 + length)) # NoMsg
              /\ WellFramed(SubSeq(s, 5 + length, Len(s)))
C4_Original == WellFramed(wire)

\* C5: a request() that has written a byte of its frame has inserted its id
\* before, so a response the dispatcher reads with the id of a request frame
\* that was written finds that the id was inserted
C5_Theorem ==
    /\ \A r \in Requesters : r \in wrote => msg[r].id \in insLog
    /\ \A r \in Requesters :
         (dispMsg # NoMsg /\ r \in wrote /\ dispMsg.id = msg[r].id)
             => dispMsg.id \in insLog
\* C5 witness: the dispatcher read the response to a request whose frame was
\* flushed and finds the entry
C5_Witness ==
    \E r \in Requesters :
        /\ r \in wrote /\ pc[r] = "wait"
        /\ pendingLock = Dispatcher /\ dispMsg.id = msg[r].id
        /\ dispMsg.id \in DOMAIN pending

\* C6: once a request() has returned and the dispatcher has ended, the id the
\* request inserted was removed exactly once, by the dispatcher or by the
\* request itself
C6_Original ==
    \A r \in Requesters :
        (Returned(r) /\ msg[r].id \in insLog
            /\ dispatcher \in {"eof", "error", "shutdown"}) =>
            /\ Cardinality(RemovalsOf(msg[r].id)) = 1
            /\ \A n \in RemovalsOf(msg[r].id) : rmLog[n].by \in {Dispatcher, r}

\* C7: a request() that returned TimedOut left no entry for its id; the step
\* in which a request() removes its entry removes no other; a response that
\* comes with the id of a request that returned TimedOut changes nothing
C7_Absent ==
    \A r \in Requesters :
        Returned(r) /\ result[r] = "TimedOut" => msg[r].id \notin DOMAIN pending
C7_Steps ==
    /\ \A r \in Requesters : pc[r] = "rm" /\ pc'[r] = "done" =>
         /\ DOMAIN pending' = DOMAIN pending \ {msg[r].id}
         /\ \A k \in DOMAIN pending' : pending'[k] = pending[k]
    /\ \A r \in Requesters :
         (RouteStep /\ Returned(r) /\ result[r] = "TimedOut"
            /\ dispMsg.id = msg[r].id)
             => pending' = pending /\ chan' = chan /\ response' = response
C7_Theorem == []C7_Absent /\ [][C7_Steps]_vars
\* C7 witness: the dispatcher is routing a response with the id of a request
\* that returned TimedOut, while another request is registered
C7_Witness ==
    \E r \in Requesters :
        /\ Returned(r) /\ result[r] = "TimedOut"
        /\ pendingLock = Dispatcher /\ dispMsg.id = msg[r].id
        /\ pending # <<>>

\* C8: no step of the handshake, of send_log or of send_health_report changes
\* the pending table, and no id of theirs is ever in it
C8_Steps ==
    \A t \in Senders \cup {MainTask} : pc'[t] # pc[t] => pending' = pending
C8_NoEntry ==
    \A k \in DOMAIN pending : k \in insLog /\ pending[k] \in Requesters
C8_Theorem == []C8_NoEntry /\ [][C8_Steps]_vars
\* C8 witness: the handshake was sent, a fire-and-forget send failed, and the
\* table holds a request's entry
C8_Witness ==
    \E t \in Senders :
        /\ pc[t] = "done" /\ result[t] = "SendFailed"
        /\ result[MainTask] = "Sent"
        /\ pending # <<>>

\* C9: every id in the pending table belongs to a request() that has not
\* returned
C9_Original == \A k \in DOMAIN pending : ~Returned(pending[k])

\* C10: a request() that was waiting when the dispatcher ended by end of
\* stream or by an error returns BrokenPipe
C10_Original ==
    \A r \in orphans :
        (dispatcher \in {"eof", "error"} /\ Returned(r)) => result[r] = "BrokenPipe"

\* the dispatcher has left its loop: end of stream, or a read or decode error
Ended == {"eof", "error"}
HandshakeMsg == Message("handshake", ReqPrefix \o <<DIGIT0 + 1>>, PayloadOf("handshake"))

\* C11: a request() that began after the dispatcher saw the stream closed
\* fails with BrokenPipe (the error of a send that failed is taken for one)
C11_Original ==
    \A r \in afterExit :
        (dispatcher = "eof" /\ Returned(r)) => result[r] \in {"BrokenPipe", "IoError"}

\* C12 as amended: once the dispatcher has ended, a request() that is running
\* and is not dropped by its caller returns, with a response, BrokenPipe,
\* TimedOut or the error of its send
C12_Results ==
    \A r \in Requesters :
        Returned(r) => result[r] \in {"Ok", "BrokenPipe", "TimedOut", "IoError"}
C12_Returns ==
    \A r \in Requesters :
        (dispatcher \in Ended /\ pc[r] \notin {"idle", "done", "dropped"})
            ~> (pc[r] \in {"done", "dropped"})
C13_Original ==
    dispatcher \in Ended =>
        /\ ~vsock_connected
        /\ health_handle_request = "disconnected"

\* C14: the latch is running until a writer exists, every step that writes
\* it (the signal task's, the supervisor's on return) leaves it at
\* shutting-down, also when it was there already, and no step takes it back
C14_Starts == (sig = "off" /\ sup = "off") => ~shutdown
C14_Steps ==
    /\ shutdown => shutdown'
    /\ (sig = "waiting" /\ sig' = "done") => shutdown'
    /\ (sup \in PolicyDone /\ sup' = "returned") => shutdown'
C14_Theorem == []C14_Starts /\ [][C14_Steps]_vars
\* C14 witness: the signal task and the supervisor have both written the latch
C14_Witness ==
    /\ sig = "done"
    /\ sup = "returned" /\ child.state # "none"
    /\ shutdown

\* C15: once the latch is shutting-down, the dispatcher is no longer in its
\* loop and every accept loop has returned, at some later point
C15_Theorem ==
    shutdown ~> (dispatcher # "running" /\ \A g \in Gateways : loops[g] = "returned")
\* C15 witness: the dispatcher left its loop by the shutdown branch and the
\* three accept loops have returned
C15_Witness ==
    /\ shutdown
    /\ dispatcher = "shutdown"
    /\ \A g \in Gateways : loops[g] = "returned"

\* C16 as amended: the shutdown branch is taken only with the latch set and
\* leads through the kill to the return, the child not running then; with the
\* latch set the supervisor leaves its select and its policy returns without
\* the child having to exit, and the child is then not running unless
\* child.wait() failed
C16_Path ==
    /\ sup \in {"kill_log", "kill", "done_kill"} => shutdown
    /\ sup = "done_kill" => child.state \in {"killed", "exited"}
C16_Steps ==
    /\ (sup = "kill_log" /\ sup' # sup) => sup' = "kill"
    /\ (sup = "kill" /\ sup' # sup) =>
         sup' = "done_kill" /\ child'.state \in {"killed", "exited"}
    /\ (sup = "done_kill" /\ sup' # sup) =>
         sup' = "returned" /\ child'.state # "running"
C16_Returns ==
    (shutdown /\ child.state = "running" /\ sup \in SelectStates)
        ~> (sup \in PolicyDone /\ (child.state # "running" \/ sup = "done_wait_err"))
C16_Theorem == []C16_Path /\ [][C16_Steps]_vars /\ C16_Returns /\ (sup \in PolicyDone ~> sup = "returned")
\* C16 witness: the supervisor returned through the shutdown branch of
\* run_service having killed a child that was running
C16_Witness ==
    /\ Policy(workload) = "service"
    /\ sup = "returned" /\ child.state = "killed"
    /\ shutdown
\* C16 as stated: if the latch is set while the child runs and the supervisor
\* waits in its select, the supervisor returns at some point with the child
\* no longer running
C16_Original ==
    (shutdown /\ child.state = "running" /\ sup \in SelectStates)
        ~> (sup = "returned" /\ child.state # "running")

\* C17: when the policy has returned, for whichever reason, the step by which
\* run returns sets the latch, so run has never returned from a policy with
\* the latch at running
C17_Returned == (sup = "returned" /\ child.state # "none") => shutdown
C17_Steps == (sup \in PolicyDone /\ sup' # sup) => (sup' = "returned" /\ shutdown')
C17_Theorem == []C17_Returned /\ [][C17_Steps]_vars
\* C17 witness: run returned after the child exited on its own, no signal
\* came, and the latch is set
C17_Witness ==
    /\ sup = "returned" /\ child.state = "exited"
    /\ sig = "waiting"
    /\ shutdown

\* positions in frames
IdxTag(tag) == {i \in 1..Len(frames) : frames[i].tag = tag}
HealthIdx(status) ==
    {i \in 1..Len(frames) : frames[i].type = "health_report" /\ frames[i].tag = status}
Before(I, J) == \A i \in I, j \in J : i < j
AppIdx == IdxTag("app") \cup IdxTag("app_err")
BatchRun == Policy(workload) = "batch"

\* C18 as amended: in batch mode the supervisor's own frames that reach the
\* wire come in the order 'Starting', 'exited with code c', health_report
\* completed with the same c; the child's lines come after 'Starting'; the
\* supervisor sets the latch only after its policy returned, which is after
\* the report was sent
C18_Order ==
    BatchRun =>
        /\ \A tag \in {"starting", "exited", "completed"} : Cardinality(IdxTag(tag)) <= 1
        /\ Before(IdxTag("starting"), AppIdx \cup IdxTag("exited") \cup IdxTag("completed"))
        /\ Before(IdxTag("exited"), IdxTag("completed"))
        /\ \A i \in IdxTag("exited") :
             frames[i] = Frm("log", "exited", child.code, "none") /\ child.state = "exited"
        /\ \A i \in IdxTag("completed") :
             frames[i] = Frm("health_report", "completed", child.code, "batch")
        /\ (sup \in {"sleep", "done_exit"} /\ faults = 0) => IdxTag("completed") # {}
C18_Latch == (~shutdown /\ shutdown' /\ sig' = sig) => sup \in PolicyDone
C18_Theorem == []C18_Order /\ [][C18_Latch]_vars
\* C18 witness: Starting, the exit log and the completed report were sent in
\* this order, a line of the child came after the report, and run returned
C18_Witness ==
    /\ BatchRun /\ sup = "returned" /\ shutdown
    /\ IdxTag("starting") # {} /\ IdxTag("exited") # {}
    /\ \E i \in IdxTag("completed"), j \in AppIdx : i < j
\* C18 as stated: Starting first, then all the child's lines, then the exit
\* log, then the completed report, and unless a signal came the latch is at
\* running until that report was sent
C18_Original ==
    BatchRun =>
        /\ Before(IdxTag("starting"), AppIdx \cup IdxTag("exited") \cup IdxTag("completed"))
        /\ Before(AppIdx, IdxTag("exited"))
        /\ Before(IdxTag("exited"), IdxTag("completed"))
        /\ (sup \in {"exit_log", "report"} /\ sig # "done") => ~shutdown

\* C19 as amended: at a tick of run_service at which try_wait answers, a
\* child that has exited leads to the crash log, one crashed report with its
\* code and the return; a child that has not leads to one running report and
\* the next round; a try_wait that fails leads to an error log, no report, and
\* the next round; after the crashed report no health report follows
C19_Frames ==
    /\ Cardinality(HealthIdx("crashed")) <= 1
    /\ \A i \in HealthIdx("crashed") :
         /\ frames[i] = Frm("health_report", "crashed", child.code, "service")
         /\ child.state = "exited"
         /\ \A j \in (i + 1)..Len(frames) : frames[j].type # "health_report"
    /\ \A i \in HealthIdx("running") : frames[i] = Frm("health_report", "running", {}, "service")
    /\ sup \in {"crash_log", "crash_report", "done_crash"} => child.state = "exited"
C19_Steps ==
    /\ (sup = "svc_select" /\ ticks' = ticks + 1) =>
         sup' = IF faults' # faults THEN "check_err_log"
                ELSE IF child.state = "exited" THEN "crash_log"
                ELSE "running_report"
    /\ (sup = "crash_log" /\ sup' # sup) => sup' = "crash_report"
    /\ (sup = "crash_report" /\ sup' # sup) =>
         /\ sup' = "done_crash"
         /\ faults' = faults =>
              frames' = Append(frames, Frm("health_report", "crashed", child.code, "service"))
    /\ (sup = "running_report" /\ sup' # sup) =>
         /\ sup' = "svc_select"
         /\ faults' = faults =>
              frames' = Append(frames, Frm("health_report", "running", {}, "service"))
    /\ (sup = "check_err_log" /\ sup' # sup) =>
         /\ sup' = "svc_select"
         /\ faults' = faults => frames' = Append(frames, LogFrame("check_failed"))
    /\ (sup \in {"crash_log", "check_err_log", "done_crash"} /\ frames' # frames) =>
         frames'[Len(frames')].type # "health_report"
C19_Theorem == []C19_Frames /\ [][C19_Steps]_vars
\* C19 witness: a running report at one tick, the crashed report with code 7
\* at a later one, and the policy returned
C19_Witness ==
    /\ sup \in {"done_crash", "returned"}
    /\ \E i \in HealthIdx("running"), j \in HealthIdx("crashed") :
         i < j /\ frames[j].code = {7}
\* C19 as stated: every tick leads to the crashed report's branch if the child
\* has exited and to the running report otherwise
C19_Original ==
    [][(sup = "svc_select" /\ ticks' = ticks + 1) =>
         sup' = IF child.state = "exited" THEN "crash_log" ELSE "running_report"]_vars

\* C20: the wire begins with the handshake frame, id req-1, written by main;
\* no byte of another frame precedes it; the dispatcher, the gateways, the
\* signal task and the supervisor are off, and no other task has taken an id,
\* until the handshake's send returned Ok
IsPrefix(a, b) == Len(a) <= Len(b) /\ \A i \in 1..Len(a) : a[i] = b[i]
HandshakeSent ==
    /\ result[MainTask] = "Sent"
    /\ flushed[MainTask] = Len(Frame(HandshakeMsg))
    /\ IsPrefix(Frame(HandshakeMsg), wire)
C21_Original ==
    /\ attempts <= MAX_RETRIES
    /\ pc[MainTask] = "exhausted" => attempts = MAX_RETRIES /\ wrote = {} /\ frames = <<>>
    /\ ExitCode \subseteq {0, 1}
    /\ ExitCode = {1} => (pc[MainTask] = "exhausted" \/ result[MainTask] = "SendFailed")

\* C22: the step by which the dispatcher ends on EOF or an error changes
\* neither the latch nor main, the accept loops or the supervisor; the latch
\* is set only by the signal task or the returning supervisor; an accept loop
\* that was bound returns only with the latch set, the supervisor leaves its
\* select only when the child has exited or the latch is set, and main goes
\* to its final log only after the supervisor returned or, standalone, with
\* the latch set
C22_Latch == shutdown => (sig = "done" \/ sup = "returned")
C22_Steps ==
    /\ (dispatcher = "running" /\ dispatcher' \in Ended) =>
         UNCHANGED <<shutdown, life, loops, sig, sup, child, frames>>
    /\ \A g \in Gateways :
         (loops[g] = "select" /\ loops'[g] = "returned") => shutdown
    /\ (sup \in SelectStates /\ sup' \notin SelectStates) =>
         (child.state = "exited" \/ shutdown)
    /\ (life # "final" /\ life' = "final") => (sup' = "returned" \/ shutdown)
    /\ (life # "exited" /\ life' = "exited") => life = "final"
C23_Original == (sig = "done") ~> (life = "exited")

\* C24 as stated: the handler never ends without an HTTP response; a body-read
\* error gives 502 and no frame, TimedOut gives 504, every other error 502, a
\* response gives payload.status, or 502 if it has none
HttpFrames == {i \in 1..Len(frames) : frames[i].type = "http_request"}
C24_Original ==
    /\ gw.pc # "panicked"
    /\ gw.pc = "returned" =>
         IF gw.outcome = "none" THEN gw.http = {502} /\ HttpFrames = {}
         ELSE IF gw.outcome = "TimedOut" THEN gw.http = {504}
         ELSE IF gw.outcome # "Ok" THEN gw.http = {502}
         ELSE IF gw.status = {} THEN gw.http = {502}
         ELSE gw.http = gw.status

\* C25: with a workload type that is none of batch, service, daemon the
\* supervisor sends one warn log, from which it enters run_batch's select in
\* the state a batch run enters it; it never is in a state of run_service,
\* its report is the batch one, it kills on shutdown with the batch log, and
\* it sets the latch when the policy has returned
ServiceStates == {"svc_start", "svc_select", "running_report", "check_err_log",
                  "crash_log", "crash_report", "done_crash", "panicked"}
ServiceTags == {"running", "crashed", "terminating_service", "check_failed"}
BatchTags == {"exited", "completed", "terminating_process", "wait_failed"}
C25_Frames ==
    /\ KnownWorkload(workload) => IdxTag("unknown_workload") = {}
    /\ ~KnownWorkload(workload) =>
        /\ Cardinality(IdxTag("unknown_workload")) <= 1
        /\ sup \notin ServiceStates
        /\ \A i \in 1..Len(frames) :
             frames[i].tag \notin ServiceTags /\ frames[i].wl \in {"none", "batch"}
        /\ \A tag \in BatchTags : Before(IdxTag("unknown_workload"), IdxTag(tag))
        /\ Before(IdxTag("starting"), IdxTag("unknown_workload"))
        /\ Before(IdxTag("exited"), IdxTag("completed"))
        /\ \A i \in IdxTag("completed") :
             frames[i] = Frm("health_report", "completed", child.code, "batch")
        /\ sup = "done_kill" => child.state \in {"killed", "exited"}
C25_Steps ==
    ~KnownWorkload(workload) =>
        /\ (sup = "spawn" /\ sup' # sup) => sup' \in {"warn", "spawn_failed"}
        /\ (sup = "warn" /\ sup' # sup) =>
             /\ sup' = "batch_select"
             /\ faults' = faults => frames' = Append(frames, LogFrame("unknown_workload"))
        /\ (sup = "batch_select" /\ sup' = "kill_log") => shutdown
        /\ (sup = "kill_log" /\ sup' # sup) =>
             /\ sup' = "kill"
             /\ faults' = faults => frames' = Append(frames, LogFrame("terminating_process"))
        /\ (sup \in PolicyDone /\ sup' # sup) => (sup' = "returned" /\ shutdown')
C25_Theorem == []C25_Frames /\ [][C25_Steps]_vars
\* C25 witness: a run with workload type cron that sent Starting, the warn
\* log, the exit log and the batch report, in this order, and returned
C25_Witness ==
    /\ workload = "cron" /\ sup = "returned" /\ shutdown /\ sig = "waiting"
    /\ \E i \in IdxTag("starting"), j \in IdxTag("unknown_workload"),
          k \in IdxTag("exited"), l \in IdxTag("completed") : i < j /\ j < k /\ k < l

\* C26 as stated: when the dispatcher has read a frame whose length prefix is
\* 0, recv gave it a message and the dispatcher has not ended
C26_Original ==
    lastRead = <<0, 0, 0, 0>> =>
        (recv(lastRead, FALSE).kind = "msg" /\ dispatcher \notin Ended)

\* C27: the holder of the writer lock is inside send's three writes, the
\* holder of the pending-table lock is at its insert or remove (the
\* dispatcher at its routing), nobody holds both, nobody holding one waits for
\* the other or on a notifier, and whoever holds a lock can take its next
\* step, which gives the lock up or leads there
LockHolderSteps ==
    /\ \A t \in Tasks : writer = t =>
         ENABLED (Send_WriteLen(t) \/ Send_WritePayload(t) \/ Send_Flush(t))
    /\ \A r \in Requesters : pendingLock = r =>
         ENABLED (Request_Insert(r) \/ Request_Remove(r))
    /\ pendingLock = Dispatcher => ENABLED Disp_Route
C27_Theorem ==
    /\ \A t \in Tasks : writer = t => pc[t] \in {"send_len", "send_payload", "send_flush"}
    /\ \A r \in Requesters : pendingLock = r => pc[r] \in {"ins", "rm"}
    /\ pendingLock = Dispatcher => (dispMsg # NoMsg /\ dispatcher = "running")
    /\ pendingLock \in Requesters \cup {Dispatcher, NoTask}
    /\ writer \in Tasks \cup {NoTask}
    /\ (writer # NoTask /\ pendingLock # NoTask) => writer # pendingLock
    /\ LockHolderSteps
\* C27 witness: a request holds the writer lock, a sender waits for it, the
\* dispatcher holds the pending-table lock and another request waits for it
C27_Witness ==
    /\ writer \in Requesters
    /\ \E t \in Senders : pc[t] = "send_lock"
    /\ pendingLock = Dispatcher
    /\ \E r \in Requesters : pc[r] \in {"ins_lock", "rm_lock"}

\* C28: in batch mode the completed report is sent only after child.wait()
\* returned the exit, on the branch that never kills; on the shutdown branch
\* no health report is sent; no run has both the completed report and a child
\* killed by the supervisor
HealthFrames == {i \in 1..Len(frames) : frames[i].type = "health_report"}
C28_Frames ==
    BatchRun =>
        /\ IdxTag("completed") # {} =>
             (child.state = "exited" /\ sup \in {"sleep", "done_exit", "returned"})
        /\ sup \in {"kill_log", "kill", "done_kill"} => HealthFrames = {}
        /\ IdxTag("terminating_process") # {} => HealthFrames = {}
        /\ ~(IdxTag("completed") # {} /\ child.state = "killed")
        /\ child.state = "killed" => HealthFrames = {}
C28_Steps ==
    BatchRun =>
        /\ (sup = "batch_select" /\ sup' = batch_exit_steps[1]) => child.state = "exited"
        /\ (sup = "report" /\ sup' # sup) => (child.state = "exited" /\ child' = child)
        /\ (sup \in {"kill_log", "kill", "done_kill"} /\ sup' # sup) =>
             sup' \in {"kill", "done_kill", "returned"}
        /\ (sup \in {"kill_log", "kill", "done_kill"} /\ frames' # frames) =>
             frames'[Len(frames')].type # "health_report"
C28_Theorem == []C28_Frames /\ [][C28_Steps]_vars
\* C28 witness: a batch run that took the shutdown branch, logged, killed the
\* running child and returned, no health report sent
C28_Witness ==
    /\ BatchRun /\ sup = "returned" /\ child.state = "killed"
    /\ IdxTag("terminating_process") # {}
    /\ HealthFrames = {}
====
